---- MODULE Spec2Model ----
(***************************************************************************)
(* Model of UltiSnips' SnippetDefinition                                   *)
(* (pythonx/UltiSnips/snippet/definition/base.py): trigger matching        *)
(* (matches / could_match), the cursor handle handed to action scripts     *)
(* (_SnippetUtilCursor) and the guarded execution of the action hooks      *)
(* (_execute_action, do_pre_expand, do_post_expand, do_post_jump).         *)
(*                                                                         *)
(* Text is a sequence of one-character strings.  Positions inside Python   *)
(* strings are zero-based offsets, as in the source.                       *)
(***************************************************************************)
EXTENDS Integers, Sequences, FiniteSets, TLC

VARIABLES
    trigger,            \* self._trigger
    opts,               \* self._opts
    matched,            \* self._matched
    last_re,            \* self._last_re
    context,            \* self._context
    actions,            \* keys of self._actions
    context_code,       \* self._context_code
    globals,            \* self._globals: the kind of preamble it holds
    compiled_globals,   \* self._compiled_globals
    snippet_value,      \* self._value: the lines of the body
    bad_sources,        \* the scripts ("context" or an action key) whose source does not compile
    before,             \* the text preceding the cursor, as the caller passes it
    op,                 \* the last method called on the definition
    ret,                \* truthiness of what that call returned
    raised,             \* the exception that call raised, "none" if it returned
    debug,              \* snippet_info and snippet_code of that exception
    buffer,             \* vim.current.buffer: the lines of the buffer
    wcursor,            \* vim.current.window.cursor: <<line (1-based), column>>
    mark,               \* position of the mark "`": <<line (1-based), column>>, ZeroPos if unset
    stack,              \* snippets_stack: the context of each instance, bottom first
    pc,                 \* "idle", or "script" while exec() runs an action script
    hook,               \* the action key being executed while pc = "script"
    target,             \* index in stack of the instance whose context the hook uses
    handle,             \* snip.cursor: the _SnippetUtilCursor given to the script
    snip_context,       \* snip.context
    snip_line,          \* snip.line: the local "line" of _eval_code
    snip_column,        \* snip.column: the local "column" of _eval_code
    cursor_line_before, \* _execute_action's local of that name
    old_mark,           \* save_mark's saved position of the mark
    new_mark_pos,       \* _execute_action's local of that name
    steps,              \* statements the action scripts have executed so far
    script,             \* the statements the running (or last) script executed
    compiles,           \* times _precompile_globals has assigned _compiled_globals
    glob,               \* names in the namespace the role script last ran in
    snippet_instance    \* what launch last handed to SnippetInstance

defvars  == <<trigger, opts, matched, last_re, context, actions>>
callvars == <<before, op, ret, raised, debug>>
codevars == <<context_code, globals, compiled_globals, snippet_value, bad_sources,
              compiles, glob,
              snippet_instance>>
hostvars == <<buffer, wcursor, mark, stack>>
runvars  == <<pc, hook, target, handle, snip_context, snip_line, snip_column,
              cursor_line_before, old_mark, new_mark_pos, steps>>
execvars == <<runvars, script>>
vars     == <<defvars, callvars, hostvars, execvars, codevars>>

-----------------------------------------------------------------------------
(* Bounds of the model.                                                    *)

\* Longest text typed before the cursor.
MaxLen == 3

\* Most lines the buffer holds.
MaxLines == 2

\* Most statements the action scripts of a session execute.
MaxSteps == 2

\* Most instances the stack of active instances holds.
MaxStack == 3

-----------------------------------------------------------------------------
(* Python strings.                                                         *)

Min(a, b) == IF a <= b THEN a ELSE b
Max(a, b) == IF a >= b THEN a ELSE b

\* Characters matched by \s and removed by str.strip() / str.rstrip().
Whitespace == {" ", "\t", "\f"}

\* Characters removed by str.strip(" \t").
Blank == {" ", "\t"}

\* s[:n]
PySliceTo(s, n) ==
    IF n >= 0 THEN SubSeq(s, 1, Min(n, Len(s)))
    ELSE SubSeq(s, 1, Max(Len(s) + n, 0))

\* s[n:]
PySliceFrom(s, n) ==
    IF n >= 0 THEN SubSeq(s, Min(n, Len(s)) + 1, Len(s))
    ELSE SubSeq(s, Max(Len(s) + n, 0) + 1, Len(s))

RECURSIVE LStripSet(_, _)
LStripSet(s, chars) ==
    IF s # <<>> /\ Head(s) \in chars THEN LStripSet(Tail(s), chars) ELSE s

RECURSIVE RStripSet(_, _)
RStripSet(s, chars) ==
    IF s # <<>> /\ s[Len(s)] \in chars
    THEN RStripSet(SubSeq(s, 1, Len(s) - 1), chars)
    ELSE s

\* s.rstrip()
RStrip(s) == RStripSet(s, Whitespace)

\* s.strip()
Strip(s) == LStripSet(RStripSet(s, Whitespace), Whitespace)

\* s.strip(" \t")
StripBlank(s) == LStripSet(RStripSet(s, Blank), Blank)

\* s.endswith(t)
EndsWith(s, t) ==
    Len(t) <= Len(s) /\ SubSeq(s, Len(s) - Len(t) + 1, Len(s)) = t

\* s.startswith(t)
StartsWith(s, t) ==
    Len(t) <= Len(s) /\ SubSeq(s, 1, Len(t)) = t

\* s.rfind(t): the highest offset at which t occurs in s, -1 if none.
RFind(s, t) ==
    LET at == {i \in 0..(Len(s) - Len(t)) : SubSeq(s, i + 1, i + Len(t)) = t}
    IN  IF at = {} THEN -1 ELSE CHOOSE i \in at : \A j \in at : j <= i

RECURSIVE SplitFrom(_, _, _)
SplitFrom(s, i, word) ==
    IF i > Len(s) THEN <<word>>
    ELSE IF s[i] \in Whitespace THEN <<word>> \o SplitFrom(s, i + 1, <<>>)
    ELSE SplitFrom(s, i + 1, Append(word, s[i]))

\* re.split(r"\s", string): every whitespace character separates two words.
split_at_whitespace(string) == SplitFrom(string, 1, <<>>)

RECURSIVE WordsLoop(_, _, _, _)
WordsLoop(before_words, word_list, i, num_words) ==
    IF i > num_words THEN before_words
    ELSE LET left == RFind(before_words, word_list[Len(word_list) - i + 1])
         IN  WordsLoop(PySliceTo(before_words, left), word_list, i + 1, num_words)

\* Mutant of words_for_line: the window is the whole line, not its last words.
words_for_line_whole_line(trig, bef) == Strip(bef)

words_for_line(trig, bef) ==
    LET num_words == Len(split_at_whitespace(trig))
        word_list == split_at_whitespace(bef)
    IN  IF Len(word_list) <= num_words THEN Strip(bef)
        ELSE LET before_words == WordsLoop(bef, word_list, 1, num_words)
             IN  Strip(PySliceFrom(bef, Len(before_words)))

-----------------------------------------------------------------------------
(* The host editor (Vim) and UltiSnips.text.escape, as base.py uses them.  *)

\* Characters of Vim's default 'iskeyword' among those the model uses.
Keyword == {"a", "b", "_", "0", "1"}

\* escape(text, chars): a backslash goes before every character of chars.
RECURSIVE escape(_, _)
escape(text, chars) ==
    IF text = <<>> THEN <<>>
    ELSE (IF Head(text) \in chars THEN <<"\\", Head(text)>> ELSE <<Head(text)>>)
         \o escape(Tail(text), chars)

\* The value Vim reads from the double-quoted literal "<text>": a backslash
\* makes the next character literal.
RECURSIVE VimString(_)
VimString(text) ==
    IF text = <<>> THEN <<>>
    ELSE IF Head(text) = "\\" /\ Len(text) >= 2
         THEN <<text[2]>> \o VimString(SubSeq(text, 3, Len(text)))
         ELSE <<Head(text)>> \o VimString(Tail(text))

\* Offsets p of s at which Vim's \< matches with a character on both sides:
\* s[p] starts a word (a keyword character after a non-keyword character).
WordStarts(s) ==
    {p \in 1..(Len(s) - 1) : s[p + 1] \in Keyword /\ s[p] \notin Keyword}

\* vim_helper.eval('"<quoted>" =~# "\\v.<."') != "0"
VimIsWordBoundary(quoted) == WordStarts(VimString(quoted)) # {}

\* vim_helper.eval('substitute("<quoted>", "\\v^.+<(.+)", "\\1", "")'): the
\* greedy .+ runs to the last word start, and what follows it replaces the text.
VimTrimToWordStart(quoted) ==
    LET s  == VimString(quoted)
        ws == WordStarts(s)
    IN  IF ws = {} THEN s
        ELSE PySliceFrom(s, CHOOSE p \in ws : \A q \in ws : q <= p)

-----------------------------------------------------------------------------
(* Regular expressions (module re), for the patterns the model uses: a     *)
(* sequence of characters, "." for any character, each optionally followed *)
(* by "*" or "+".                                                          *)

Quantifiers == {"*", "+"}

RECURSIVE ReParse(_, _)
ReParse(pattern, i) ==
    IF i > Len(pattern) THEN <<>>
    ELSE LET q == IF i < Len(pattern) /\ pattern[i + 1] \in Quantifiers
                  THEN pattern[i + 1] ELSE "1"
         IN  <<[ch |-> pattern[i], q |-> q]>>
             \o ReParse(pattern, IF q = "1" THEN i + 1 ELSE i + 2)

\* re.compile(pattern) succeeds: no quantifier without something to repeat.
ReValid(pattern) ==
    \A k \in 1..Len(ReParse(pattern, 1)) : ReParse(pattern, 1)[k].ch \notin Quantifiers

ReAccepts(atom, c) == IF atom.ch = "." THEN c # "\n" ELSE c = atom.ch

RECURSIVE ReRun(_, _, _)
ReRun(atom, s, pos) ==
    IF pos < Len(s) /\ ReAccepts(atom, s[pos + 1]) THEN 1 + ReRun(atom, s, pos + 1) ELSE 0

\* The end of the match of atoms[i..] at offset pos that the backtracking
\* matcher finds first (greedy repeats, longest first), -1 if none.  With
\* must_advance, an empty match at start is not accepted.
RECURSIVE ReMatchHere(_, _, _, _, _, _)
RECURSIVE ReRepeat(_, _, _, _, _, _, _, _)
ReMatchHere(atoms, i, s, pos, start, must_advance) ==
    IF i > Len(atoms)
    THEN IF must_advance /\ pos = start THEN -1 ELSE pos
    ELSE LET run == ReRun(atoms[i], s, pos)
             hi  == IF atoms[i].q = "1" THEN Min(run, 1) ELSE run
             lo  == IF atoms[i].q = "*" THEN 0 ELSE 1
         IN  ReRepeat(atoms, i, s, pos, start, must_advance, hi, lo)
ReRepeat(atoms, i, s, pos, start, must_advance, k, lo) ==
    IF k < lo THEN -1
    ELSE LET e == ReMatchHere(atoms, i + 1, s, pos + k, start, must_advance)
         IN  IF e # -1 THEN e
             ELSE ReRepeat(atoms, i, s, pos, start, must_advance, k - 1, lo)

NoMatch == [valid |-> FALSE, start |-> 0, end |-> 0, string |-> <<>>]

\* The scanner's search from offset pos: the first offset at which the
\* pattern matches; must_advance applies to the first offset tried only.
RECURSIVE ReSearch(_, _, _, _, _)
ReSearch(atoms, s, pos, from, must_advance) ==
    IF pos > Len(s) THEN NoMatch
    ELSE LET e == ReMatchHere(atoms, 1, s, pos, pos, must_advance /\ pos = from)
         IN  IF e # -1 THEN [valid |-> TRUE, start |-> pos, end |-> e, string |-> s]
             ELSE ReSearch(atoms, s, pos + 1, from, must_advance)

\* re.finditer(pattern, s): the matches in scan order.  After a match the scan
\* resumes at its end, and must advance there if the match was empty.
RECURSIVE ReScan(_, _, _, _)
ReScan(atoms, s, pos, must_advance) ==
    LET m == ReSearch(atoms, s, pos, pos, must_advance)
    IN  IF ~m.valid THEN <<>>
        ELSE <<m>> \o ReScan(atoms, s, m.end, m.end = m.start)

finditer(pattern, s) == ReScan(ReParse(pattern, 1), s, 0, FALSE)

\* match.string[match.start():match.end()]
MatchText(m) == SubSeq(m.string, m.start + 1, m.end)

-----------------------------------------------------------------------------
(* SnippetDefinition: trigger matching.                                    *)

\* The option flags that select how the trigger is matched.
ModeFlags == {"r", "w", "i", "b"}

NoContext == "None"

\* _re_match: the first match of the scan that ends at the end of the text.
\* Returns what the method returns (found: a match object, else False) with
\* the values it leaves in _matched and _last_re.
RECURSIVE ReMatchLoop(_, _, _, _, _)
ReMatchLoop(ms, k, text, cur_matched, cur_last) ==
    IF k > Len(ms)
    THEN [found |-> FALSE, matched |-> cur_matched, last_re |-> cur_last]
    ELSE IF ms[k].end # Len(text)
         THEN ReMatchLoop(ms, k + 1, text, cur_matched, cur_last)
         ELSE [found |-> TRUE,
               matched |-> SubSeq(text, ms[k].start + 1, ms[k].end),
               last_re |-> ms[k]]

re_match(trig, text, cur_matched, cur_last) ==
    ReMatchLoop(finditer(trig, text), 1, text, cur_matched, cur_last)

\* Mutant of match_word: the word boundary is not asked for.
match_word_no_boundary(trig, words) ==
    PySliceFrom(words, 0 - Len(trig)) = trig

\* matches, flag w: the suffix of the words as long as the trigger equals the
\* trigger, and a word boundary separates it from a non-empty prefix.
match_word(trig, words) ==
    LET words_len    == Len(trig)
        words_prefix == PySliceTo(words, 0 - words_len)
        words_suffix == PySliceFrom(words, 0 - words_len)
    IN  IF words_suffix = trig /\ words_prefix # <<>>
        THEN VimIsWordBoundary(
                 escape(PySliceFrom(words_prefix, -1) \o PySliceTo(words_suffix, 1),
                        {"\\", "\""}))
        ELSE words_suffix = trig

\* Mutant of match_inword: the words must start with the trigger.
match_inword_prefix(trig, words) == StartsWith(words, trig)

\* matches, flag i.
match_inword(trig, words) == EndsWith(words, trig)

\* matches, no mode flag.
match_exact(trig, words) == words = trig

\* Flag b, in matches and could_match: only blanks and tabs precede the
\* matched text on the line.
on_line_start(bef, cur_matched) ==
    LET text_before == PySliceTo(RStrip(bef), 0 - Len(cur_matched))
    IN  StripBlank(text_before) = <<>>

\* matches(before) of a definition without context code: what it returns and
\* the fields it leaves.
matches(trig, o, cur_last, cur_context, bef) ==
    LET words == words_for_line(trig, bef)
        re    == re_match(trig, bef, <<>>, cur_last)
        match == IF "r" \in o THEN re.found
                 ELSE IF "w" \in o THEN match_word(trig, words)
                 ELSE IF "i" \in o THEN match_inword(trig, words)
                 ELSE match_exact(trig, words)
        m1    == IF "r" \in o THEN re.matched ELSE <<>>
        last  == IF "r" \in o THEN re.last_re ELSE cur_last
        m2    == IF match /\ m1 = <<>> THEN trig ELSE m1
    IN  IF "b" \in o /\ match /\ ~on_line_start(bef, m2)
        THEN [ret |-> FALSE, matched |-> <<>>, last_re |-> last, context |-> cur_context]
        ELSE [ret |-> match, matched |-> m2, last_re |-> last, context |-> NoContext]

\* could_match, flag w: the words, trimmed to their last word start, begin the
\* trigger; a trimmed prefix fails the match and _matched keeps the suffix.
could_match_word(trig, words) ==
    LET words_suffix == VimTrimToWordStart(escape(words, {"\\", "\""}))
    IN  [match   |-> StartsWith(trig, words_suffix) /\ words_suffix = words,
         matched |-> words_suffix]

\* Mutant of could_match: a before that ends in a space or a tab is not taken
\* for the empty before.
could_match_keeps_blank(trig, o, cur_last, bef) ==
    LET words == words_for_line(trig, bef)
        re    == re_match(trig, bef, <<>>, cur_last)
        cw    == could_match_word(trig, words)
        match == IF "r" \in o THEN re.found
                 ELSE IF "w" \in o THEN cw.match
                 ELSE StartsWith(trig, words)
        m1    == IF "r" \in o THEN re.matched
                 ELSE IF "w" \in o THEN cw.matched
                 ELSE <<>>
        last  == IF "r" \in o THEN re.last_re ELSE cur_last
        m2    == IF match /\ m1 = <<>> THEN words ELSE m1
    IN  IF bef # <<>> /\ RStrip(bef) # bef
        THEN [ret |-> FALSE, matched |-> <<>>, last_re |-> cur_last]
        ELSE IF "b" \in o /\ match /\ ~on_line_start(bef, m2)
        THEN [ret |-> FALSE, matched |-> <<>>, last_re |-> last]
        ELSE [ret |-> match, matched |-> m2, last_re |-> last]

\* could_match(before): what it returns and the fields it leaves.
could_match(trig, o, cur_last, bef) ==
    LET bef1  == IF bef # <<>> /\ bef[Len(bef)] \in {" ", "\t"} THEN <<>> ELSE bef
        words == words_for_line(trig, bef1)
        re    == re_match(trig, bef1, <<>>, cur_last)
        cw    == could_match_word(trig, words)
        match == IF "r" \in o THEN re.found
                 ELSE IF "w" \in o THEN cw.match
                 ELSE StartsWith(trig, words)
        m1    == IF "r" \in o THEN re.matched
                 ELSE IF "w" \in o THEN cw.matched
                 ELSE <<>>
        last  == IF "r" \in o THEN re.last_re ELSE cur_last
        m2    == IF match /\ m1 = <<>> THEN words ELSE m1
    IN  IF bef1 # <<>> /\ RStrip(bef1) # bef1
        THEN [ret |-> FALSE, matched |-> <<>>, last_re |-> cur_last]
        ELSE IF "b" \in o /\ match /\ ~on_line_start(bef1, m2)
        THEN [ret |-> FALSE, matched |-> <<>>, last_re |-> last]
        ELSE [ret |-> match, matched |-> m2, last_re |-> last]

-----------------------------------------------------------------------------
(* Script execution: _precompile_globals, _eval_code and                   *)
(* _make_debug_exception.  Source texts are kept as tokens.                *)

\* What a context predicate leaves in snip.context; "None" and "" are falsy.
PredicateValues == {"None", "", "ctx"}

Truthy(v) == v \notin {"None", ""}

\* The preamble a definition's globals hold: one that compiles and runs, one
\* that does not compile, one that raises when it is executed.
GlobalsKinds == {"ok", "bad_syntax", "raises"}

\* An exception that carries neither snippet_info nor snippet_code.
NoDebug == [snippet_info |-> <<>>, snippet_code |-> <<>>]

\* _make_debug_exception(e, code): the attributes it puts on the exception.
make_debug_exception(trig, ctx_code, acts, code) ==
    [snippet_info |->
         << "location", trig, "description",
            IF ctx_code # "None" THEN ctx_code ELSE "<none>",
            IF "pre_expand" \in acts THEN "pre_expand" ELSE "<none>",
            IF "post_expand" \in acts THEN "post_expand" ELSE "<none>" >>,
     snippet_code |-> code]

\* The script text _eval_code rebuilds for the exception: the import line,
\* the preamble and the role script.
eval_source(g, code) == << "import re, os, vim, string, random", g, code >>

\* _precompile_globals(): cached_compile of the preamble raises or yields the
\* compiled preamble.
precompile_globals(g) ==
    IF g = "bad_syntax" THEN [raised |-> TRUE, compiled |-> "None"]
    ELSE [raised |-> FALSE, compiled |-> "code"]

\* Mutant of eval_prelude: the preamble is compiled in every execution.
eval_prelude_compiles_again(g, cg, n) ==
    LET c == precompile_globals(g)
        m == IF ~c.raised /\ n < 2 THEN n + 1 ELSE n
    IN  IF c.raised
        THEN [ok |-> FALSE, compiled_globals |-> cg, compiles |-> n, glob |-> {}]
        ELSE IF g = "raises"
        THEN [ok |-> FALSE, compiled_globals |-> c.compiled, compiles |-> m,
              glob |-> {"snip", "match"}]
        ELSE [ok |-> TRUE, compiled_globals |-> c.compiled, compiles |-> m,
              glob |-> {"snip", "match", "preamble"}]

\* _eval_code from the try down to the exec of the preamble; cg is
\* _compiled_globals and n the compilations made so far.  glob holds the
\* names the role script is to see.
eval_prelude(g, cg, n) ==
    LET c == IF cg = "None" THEN precompile_globals(g)
             ELSE [raised |-> FALSE, compiled |-> cg]
        m == IF cg = "None" /\ ~c.raised /\ n < 2 THEN n + 1 ELSE n
    IN  IF c.raised
        THEN [ok |-> FALSE, compiled_globals |-> cg, compiles |-> n, glob |-> {}]
        ELSE IF g = "raises"
        THEN [ok |-> FALSE, compiled_globals |-> c.compiled, compiles |-> m,
              glob |-> {"snip", "match"}]
        ELSE [ok |-> TRUE, compiled_globals |-> c.compiled, compiles |-> m,
              glob |-> {"snip", "match", "preamble"}]

\* Mutant of context_match: the predicate runs on the empty buffer too.
context_match_on_empty_buffer(buf, g, cg, n, cur_glob, role) ==
    LET pre == eval_prelude(g, cg, n)
        bad == ~pre.ok \/ role = "raise"
    IN  [ran |-> pre.ok, raised |-> bad,
         context |-> IF bad THEN NoContext ELSE role,
         compiled_globals |-> pre.compiled_globals,
         compiles |-> pre.compiles, glob |-> pre.glob]

\* _context_match(visual_content, before): nothing is evaluated on a buffer
\* that is one empty line; otherwise the predicate runs in _eval_code and
\* role says what it does, "raise" or the value it leaves in snip.context.
context_match(buf, g, cg, n, cur_glob, role) ==
    IF Len(buf) = 1 /\ buf[1] = <<>>
    THEN [ran |-> FALSE, raised |-> FALSE, context |-> NoContext,
          compiled_globals |-> cg, compiles |-> n, glob |-> cur_glob]
    ELSE LET pre == eval_prelude(g, cg, n)
             bad == ~pre.ok \/ role = "raise"
         IN  [ran |-> pre.ok, raised |-> bad,
              context |-> IF bad THEN NoContext ELSE role,
              compiled_globals |-> pre.compiled_globals,
              compiles |-> pre.compiles, glob |-> pre.glob]

-----------------------------------------------------------------------------
(* The definitions and the texts the model draws from.                     *)

\* Characters typed before the cursor: a keyword character, a character that
\* is none, a blank, and whitespace that is no blank.
Alphabet == {"a", "-", " ", "\f"}

\* Triggers: one word, two characters, a word start inside, two words, one
\* that begins with whitespace and, read as patterns, a repeat, a repeat that
\* matches the empty text, a pattern that ends in whitespace and one that re
\* cannot compile.
Triggers ==
    { <<"a">>, <<"a", "a">>, <<"-", "a">>, <<"a", " ", "a">>, <<" ", "a">>,
      <<"a", "+">>, <<"a", "*">>, <<"a", " ">>, <<"+">> }

ZeroPos == <<0, 0>>

\* No instance has been launched.
NoInstance ==
    [launched |-> FALSE, initial_text |-> <<>>, indent |-> <<>>,
     last_re |-> NoMatch, context |-> NoContext, compiled_globals |-> "None"]

\* The host and hook variables of a session in which no hook runs.
HostAtRest ==
    /\ buffer = << <<>> >>
    /\ wcursor = <<1, 0>>
    /\ mark = ZeroPos
    /\ stack = <<>>
    /\ pc = "idle"
    /\ hook = "none"
    /\ target = 0
    /\ handle = [cursor |-> <<0, 0>>, set |-> FALSE]
    /\ snip_context = NoContext
    /\ snip_line = 0
    /\ snip_column = 0
    /\ cursor_line_before = <<>>
    /\ old_mark = ZeroPos
    /\ new_mark_pos = ZeroPos
    /\ steps = 0
    /\ script = <<>>

\* SnippetDefinition.__init__: the exception the constructor ends with,
\* "none" if it returns.  A trigger that re cannot compile raises in the
\* constructor's matches(self._trigger), whose handler calls
\* _make_debug_exception before self._actions exists; cached_compile raises on
\* a context or action source that does not compile.
ctor_raised(trig, o, ctx_code, acts, bad) ==
    IF "r" \in o /\ ~ReValid(trig) THEN "AttributeError"
    ELSE IF ctx_code # "None" /\ "context" \in bad THEN "SyntaxError"
    ELSE IF acts \cap bad # {} THEN "SyntaxError"
    ELSE "none"

\* The definition exists and no script is running.
Idle == pc = "idle" /\ ~(op = "__init__" /\ raised # "none")

\* SnippetDefinition.__init__: the fields after construction.  The
\* constructor calls matches(self._trigger) before any context code is set.
Constructed(trig, o, acts) ==
    LET first == IF "r" \in o /\ ~ReValid(trig)
                 THEN [matched |-> <<>>, last_re |-> NoMatch]
                 ELSE matches(trig, o, NoMatch, NoContext, trig)
    IN  /\ trigger = trig
        /\ opts = o
        /\ matched = first.matched
        /\ last_re = first.last_re
        /\ context = NoContext
        /\ actions = acts
        /\ compiled_globals = "None"
        /\ compiles = 0

InitMatch ==
    /\ \E trig \in Triggers, o \in SUBSET ModeFlags : Constructed(trig, o, {})
    /\ before = <<>>
    /\ op = "__init__"
    /\ ret = FALSE
    /\ context_code = "None"
    /\ bad_sources = {}
    /\ raised = ctor_raised(trigger, opts, context_code, actions, bad_sources)
    /\ debug = NoDebug
    /\ globals = "ok"
    /\ snippet_value = <<"x">>
    /\ glob = {}
    /\ snippet_instance = NoInstance
    /\ HostAtRest

\* The user types a character: the text before the cursor grows.
TypeChar ==
    /\ Idle
    /\ Len(before) < MaxLen
    /\ \E c \in Alphabet : before' = Append(before, c)
    /\ op' = "type"
    /\ ret' = FALSE
    /\ raised' = "none"
    /\ debug' = NoDebug
    /\ UNCHANGED <<defvars, hostvars, execvars, codevars>>

\* matches(before): the match on the trigger and the options, then the
\* context predicate of a definition that has one.  An error of re in the
\* scan is given the diagnostics and raised again.
Matches ==
    /\ Idle
    /\ IF "r" \in opts /\ ~ReValid(trigger)
       THEN /\ matched' = <<>>
            /\ ret' = FALSE
            /\ raised' = "re.error"
            /\ debug' = make_debug_exception(trigger, context_code, actions, <<>>)
            /\ script' = <<>>
            /\ UNCHANGED <<last_re, context, snip_context, compiled_globals, compiles,
                           glob>>
       ELSE \E role \in PredicateValues \cup {"raise"} :
           LET r == matches(trigger, opts, last_re, context, before)
               c == context_match(buffer, globals, compiled_globals, compiles,
                                  glob, role)
           IN  /\ matched' = r.matched
               /\ last_re' = r.last_re
               /\ IF r.ret /\ context_code # "None"
                  THEN /\ context' = c.context
                       /\ ret' = (~c.raised /\ Truthy(c.context))
                       /\ raised' = IF c.raised THEN "ScriptError" ELSE "none"
                       /\ debug' = IF c.raised
                                   THEN make_debug_exception(
                                            trigger, context_code, actions,
                                            eval_source(globals,
                                                <<"snip.context = ", context_code>>))
                                   ELSE NoDebug
                       /\ script' = IF ~c.ran THEN <<>>
                                    ELSE IF role = "raise" THEN <<"raise">>
                                    ELSE <<"context">>
                       /\ snip_context' = c.context
                       /\ compiled_globals' = c.compiled_globals
                       /\ compiles' = c.compiles
                       /\ glob' = c.glob
                  ELSE /\ context' = r.context
                       /\ ret' = r.ret
                       /\ raised' = "none"
                       /\ debug' = NoDebug
                       /\ script' = <<>>
                       /\ UNCHANGED <<snip_context, compiled_globals, compiles, glob>>
    /\ op' = "matches"
    /\ UNCHANGED <<trigger, opts, actions, before, hostvars, pc, hook, target, handle,
                   snip_line, snip_column, cursor_line_before, old_mark,
                   new_mark_pos, steps, context_code, globals, snippet_value,
                   bad_sources, snippet_instance>>

\* could_match(before): an error of re in the scan leaves it as it is.
CouldMatch ==
    /\ Idle
    /\ IF "r" \in opts /\ ~ReValid(trigger)
       THEN /\ matched' = <<>>
            /\ ret' = FALSE
            /\ raised' = "re.error"
            /\ UNCHANGED last_re
       ELSE LET r == could_match(trigger, opts, last_re, before)
            IN  /\ matched' = r.matched
                /\ last_re' = r.last_re
                /\ ret' = r.ret
                /\ raised' = "none"
    /\ op' = "could_match"
    /\ debug' = NoDebug
    /\ UNCHANGED <<trigger, opts, context, actions, before, hostvars, execvars, codevars>>

NextMatch == TypeChar \/ Matches \/ CouldMatch

SpecMatch == InitMatch /\ [][NextMatch]_vars

-----------------------------------------------------------------------------
(* _SnippetUtilCursor: the cursor handle a script receives as snip.cursor. *)

\* __init__(cursor): seeded from vim.current.window.cursor, line made zero-based.
cursor_init(cursor) ==
    [cursor |-> <<cursor[1] - 1, cursor[2]>>, set |-> FALSE]

\* __setitem__(index, value), index 0 or 1.
cursor_setitem(h, index, value) ==
    [cursor |-> [h.cursor EXCEPT ![index + 1] = value], set |-> TRUE]

\* set(line, column)
cursor_set(h, line, column) ==
    cursor_setitem(cursor_setitem(h, 0, line), 1, column)

\* Mutant of cursor_preserve: the handle is not marked set.
cursor_preserve_keeps_flag(h, buf_cursor) ==
    [cursor |-> <<buf_cursor[1], buf_cursor[2]>>, set |-> h.set]

\* preserve(): takes vim_helper.buf.cursor.
cursor_preserve(h, buf_cursor) ==
    [cursor |-> <<buf_cursor[1], buf_cursor[2]>>, set |-> TRUE]

\* is_set()
is_set(h) == h.set

-----------------------------------------------------------------------------
(* vim_helper, as _execute_action uses it.                                 *)

\* vim_helper.buf.cursor: the window cursor as a zero-based Position.
BufCursor(wc) == <<wc[1] - 1, wc[2]>>

\* vim_helper.buf.cursor = Position(line, column)
WindowCursorAt(position) == <<position[1] + 1, position[2]>>

\* The assignment to vim_helper.buf.cursor as the host carries it out: a line
\* that is not in the buffer is refused with vim.error and the cursor stays.
SetBufCursor(buf, wc, position) ==
    IF position[1] + 1 \in 1..Len(buf)
    THEN [wcursor |-> WindowCursorAt(position), raised |-> "none"]
    ELSE [wcursor |-> wc, raised |-> "vim.error"]

\* vim_helper.buf.line_till_cursor
LineTillCursor(buf, wc) ==
    IF wc[1] \in 1..Len(buf) THEN PySliceTo(buf[wc[1]], wc[2]) ELSE <<>>

\* vim_helper.get_cursor_pos(): getpos("."), <<line, column>> both 1-based.
CursorPos(wc) == <<wc[1], wc[2] + 1>>

\* vim_helper.set_cursor_from_pos(pos)
CursorFromPos(pos) == <<pos[1], pos[2] - 1>>

\* vim_helper._is_pos_zero(pos)
is_pos_zero(pos) == pos = ZeroPos

-----------------------------------------------------------------------------
(* The action hooks.                                                       *)

ActionKeys == {"pre_expand", "post_expand", "post_jump"}

\* Values a script assigns to snip.context.
ScriptContexts == {"ctx"}

\* Texts a script writes into the buffer.
LineTexts == { <<"a">>, <<"-", "a">> }

\* Mutant of execute_action_exit: the line is compared even when the script
\* set the cursor.
execute_action_exit_always_checks(h, mark_pos, line_before, buf, wc) ==
    IF is_set(h)
    THEN IF line_before # LineTillCursor(buf, WindowCursorAt(h.cursor))
         THEN [wcursor |-> wc, raised |-> "PebkacError"]
         ELSE SetBufCursor(buf, wc, h.cursor)
    ELSE IF is_pos_zero(mark_pos)
    THEN [wcursor |-> wc, raised |-> "PebkacError"]
    ELSE LET moved == CursorFromPos(mark_pos)
         IN  [wcursor |-> moved,
              raised  |-> IF line_before # LineTillCursor(buf, moved)
                          THEN "PebkacError" ELSE "none"]

\* Mutant of execute_action_exit: the line up to the cursor is not compared.
execute_action_exit_no_line_check(h, mark_pos, line_before, buf, wc) ==
    IF is_set(h)
    THEN SetBufCursor(buf, wc, h.cursor)
    ELSE IF is_pos_zero(mark_pos)
    THEN [wcursor |-> wc, raised |-> "PebkacError"]
    ELSE [wcursor |-> CursorFromPos(mark_pos), raised |-> "none"]

\* _execute_action, after the script ran: where the cursor goes and whether
\* the usage error is raised.  mark_pos is the position the mark has and buf
\* the buffer the script left.
execute_action_exit(h, mark_pos, line_before, buf, wc) ==
    IF is_set(h)
    THEN SetBufCursor(buf, wc, h.cursor)
    ELSE IF is_pos_zero(mark_pos)
    THEN [wcursor |-> wc, raised |-> "PebkacError"]
    ELSE LET moved == CursorFromPos(mark_pos)
         IN  [wcursor |-> moved,
              raised  |-> IF line_before # LineTillCursor(buf, moved)
                          THEN "PebkacError" ELSE "none"]

\* _execute_action up to the exec() of the script in _eval_code: the mark is
\* saved and set at the cursor, the line up to the cursor is kept, and the
\* script gets a fresh cursor handle and the context.
EnterAction(key, ctx, tgt) ==
    LET pre == eval_prelude(globals, compiled_globals, compiles)
    IN  /\ old_mark' = mark
        /\ cursor_line_before' = LineTillCursor(buffer, wcursor)
        /\ handle' = cursor_init(wcursor)
        /\ snip_context' = ctx
        /\ snip_line' = wcursor[1] - 1
        /\ snip_column' = wcursor[2] - 1
        /\ compiled_globals' = pre.compiled_globals
        /\ compiles' = pre.compiles
        /\ glob' = pre.glob
        /\ hook' = key
        /\ target' = tgt
        /\ script' = <<>>
        /\ op' = key
        /\ ret' = FALSE
        /\ IF pre.ok
           THEN /\ pc' = "script"
                /\ mark' = CursorPos(wcursor)
                /\ raised' = "none"
                /\ debug' = NoDebug
           ELSE /\ pc' = "idle"
                /\ mark' = mark
                /\ raised' = "ScriptError"
                /\ debug' = make_debug_exception(trigger, context_code, actions,
                                                 eval_source(globals, key))
        /\ UNCHANGED <<defvars, before, buffer, wcursor, stack, new_mark_pos, steps,
                       context_code, globals, snippet_value, bad_sources, snippet_instance>>

\* Mutant of SkipAction: the hook reports that the cursor was set.
SkipAction_returns_true(key) ==
    /\ op' = key
    /\ ret' = TRUE
    /\ raised' = "none"
    /\ debug' = NoDebug
    /\ UNCHANGED <<defvars, before, hostvars, execvars, codevars>>

\* A hook whose action key the definition does not have.
SkipAction(key) ==
    /\ op' = key
    /\ ret' = FALSE
    /\ raised' = "none"
    /\ debug' = NoDebug
    /\ UNCHANGED <<defvars, before, hostvars, execvars, codevars>>

\* do_pre_expand(visual_content, snippets_stack)
DoPreExpand ==
    /\ Idle
    /\ IF "pre_expand" \in actions
       THEN EnterAction("pre_expand", context, 0)
       ELSE SkipAction("pre_expand")

\* do_post_expand(start, end, snippets_stack)
DoPostExpand ==
    /\ Idle
    /\ stack # <<>>
    /\ IF "post_expand" \in actions
       THEN EnterAction("post_expand", stack[Len(stack)], Len(stack))
       ELSE SkipAction("post_expand")

\* do_post_jump(tabstop_number, jump_direction, snippets_stack, current_snippet)
DoPostJump ==
    /\ Idle
    /\ \E current_snippet \in 1..Len(stack) :
           IF "post_jump" \in actions
           THEN EnterAction("post_jump", stack[current_snippet], current_snippet)
           ELSE SkipAction("post_jump")

\* What a statement of the script leaves alone.
Statement(name) ==
    /\ pc = "script"
    /\ steps < MaxSteps
    /\ steps' = steps + 1
    /\ script' = Append(script, name)
    /\ UNCHANGED <<defvars, callvars, codevars, stack, pc, hook, target, snip_line,
                   snip_column, cursor_line_before, old_mark, new_mark_pos>>

\* snip.cursor.set(line, column)
ScriptCursorSet ==
    /\ Statement("set")
    /\ \E line \in 0..(MaxLines - 1), column \in 0..1 :
           handle' = cursor_set(handle, line, column)
    /\ UNCHANGED <<buffer, wcursor, mark, snip_context>>

\* snip.cursor[index] = value
ScriptCursorSetItem ==
    /\ Statement("setitem")
    /\ \E index \in 0..1, value \in 0..1 :
           handle' = cursor_setitem(handle, index, value)
    /\ UNCHANGED <<buffer, wcursor, mark, snip_context>>

\* snip.cursor.preserve()
ScriptCursorPreserve ==
    /\ Statement("preserve")
    /\ handle' = cursor_preserve(handle, BufCursor(wcursor))
    /\ UNCHANGED <<buffer, wcursor, mark, snip_context>>

\* snip.context = value
ScriptSetContext ==
    /\ Statement("context")
    /\ \E value \in ScriptContexts : snip_context' = value
    /\ UNCHANGED <<buffer, wcursor, mark, handle>>

\* The script launches a snippet of its own (snip.expand_anon): the instance
\* it makes is pushed on the stack of active instances.
ScriptExpandAnon ==
    /\ pc = "script"
    /\ steps < MaxSteps
    /\ Len(stack) < MaxStack
    /\ steps' = steps + 1
    /\ script' = Append(script, "expand_anon")
    /\ stack' = Append(stack, "nested")
    /\ UNCHANGED <<defvars, callvars, codevars, buffer, wcursor, mark, pc, hook, target,
                   handle, snip_context, snip_line, snip_column, cursor_line_before,
                   old_mark, new_mark_pos>>

\* snip.buffer[n] = text: the line changes, the mark and the cursor stay.
ScriptSetLine ==
    /\ Statement("setline")
    /\ \E n \in 1..Len(buffer), text \in LineTexts :
           buffer' = [buffer EXCEPT ![n] = text]
    /\ UNCHANGED <<wcursor, mark, handle, snip_context>>

\* Vim moves a position on line l when a line is inserted after line n.
AfterInsert(pos, n) == IF pos[1] > n THEN <<pos[1] + 1, pos[2]>> ELSE pos

\* snip.buffer.append(text, n): a new line after line n (0: on top).
ScriptInsertLine ==
    /\ Statement("insert")
    /\ Len(buffer) < MaxLines
    /\ \E n \in 0..Len(buffer) :
           /\ buffer' = SubSeq(buffer, 1, n) \o << <<"a">> >>
                        \o SubSeq(buffer, n + 1, Len(buffer))
           /\ mark' = AfterInsert(mark, n)
           /\ wcursor' = AfterInsert(wcursor, n)
    /\ UNCHANGED <<handle, snip_context>>

\* del snip.buffer[n]: Vim deletes a mark with its line and moves the marks
\* below it up; the cursor stays on its line, or on the line that takes its
\* place.
ScriptDeleteLine ==
    /\ Statement("delete")
    /\ Len(buffer) > 1
    /\ \E n \in 1..Len(buffer) :
           /\ buffer' = SubSeq(buffer, 1, n - 1) \o SubSeq(buffer, n + 1, Len(buffer))
           /\ mark' = IF mark[1] = n THEN ZeroPos
                      ELSE IF mark[1] > n THEN <<mark[1] - 1, mark[2]>>
                      ELSE mark
           /\ wcursor' = IF wcursor[1] > n THEN <<wcursor[1] - 1, wcursor[2]>>
                         ELSE IF wcursor[1] = n
                         THEN <<Min(n, Len(buffer) - 1), 0>>
                         ELSE wcursor
    /\ UNCHANGED <<handle, snip_context>>

\* The script ends: the rest of _execute_action (the cursor is placed or the
\* usage error raised, save_mark puts the mark back) and of the do_* method
\* (the context is stored, is_set() returned).
ScriptReturn ==
    /\ pc = "script"
    /\ LET x  == execute_action_exit(handle, mark, cursor_line_before, buffer, wcursor)
           ok == x.raised = "none"
       IN  /\ wcursor' = x.wcursor
           /\ raised' = x.raised
           /\ debug' = NoDebug
           /\ ret' = (ok /\ is_set(handle))
           /\ context' = IF ok /\ hook = "pre_expand" THEN snip_context ELSE context
           /\ stack' = IF ok /\ hook = "post_expand"
                       THEN [stack EXCEPT ![Len(stack)] = snip_context]
                       ELSE IF ok /\ hook = "post_jump"
                       THEN [stack EXCEPT ![target] = snip_context]
                       ELSE stack
    /\ new_mark_pos' = IF is_set(handle) THEN new_mark_pos ELSE mark
    /\ mark' = old_mark
    /\ pc' = "idle"
    /\ UNCHANGED <<trigger, opts, matched, last_re, actions, before, op, buffer,
                   hook, target, handle, snip_context, snip_line, snip_column,
                   cursor_line_before, old_mark, steps, script, codevars>>

\* The script raises: _eval_code puts the diagnostics on the exception and
\* raises it again, save_mark puts the mark back on the way out, and nothing
\* of the rest of _execute_action and of the do_* method is executed.
ScriptRaise ==
    /\ pc = "script"
    /\ raised' = "ScriptError"
    /\ debug' = make_debug_exception(trigger, context_code, actions,
                                     eval_source(globals, hook))
    /\ ret' = FALSE
    /\ script' = Append(script, "raise")
    /\ mark' = old_mark
    /\ pc' = "idle"
    /\ UNCHANGED <<defvars, before, op, buffer, wcursor, stack, hook, target, handle,
                   snip_context, snip_line, snip_column, cursor_line_before,
                   old_mark, new_mark_pos, steps, codevars>>

InitHook ==
    /\ \E acts \in SUBSET ActionKeys : Constructed(<<"a">>, {}, acts)
    /\ before = <<>>
    /\ op = "__init__"
    /\ ret = FALSE
    /\ context_code = "None"
    /\ bad_sources = {}
    /\ raised = ctor_raised(trigger, opts, context_code, actions, bad_sources)
    /\ debug = NoDebug
    /\ globals \in GlobalsKinds
    /\ snippet_value = <<"x">>
    /\ glob = {}
    /\ snippet_instance = NoInstance
    /\ buffer = << <<"a", "a">>, <<"a">> >>
    /\ wcursor \in { <<1, 0>>, <<2, 1>> }
    /\ mark = <<2, 1>>
    /\ stack = <<"s1", "s2">>
    /\ pc = "idle"
    /\ hook = "none"
    /\ target = 0
    /\ handle = [cursor |-> <<0, 0>>, set |-> FALSE]
    /\ snip_context = NoContext
    /\ snip_line = 0
    /\ snip_column = 0
    /\ cursor_line_before = <<>>
    /\ old_mark = ZeroPos
    /\ new_mark_pos = ZeroPos
    /\ steps = 0
    /\ script = <<>>

NextHook ==
    \/ DoPreExpand
    \/ DoPostExpand
    \/ DoPostJump
    \/ ScriptCursorSet
    \/ ScriptCursorSetItem
    \/ ScriptCursorPreserve
    \/ ScriptSetContext
    \/ ScriptSetLine
    \/ ScriptInsertLine
    \/ ScriptDeleteLine
    \/ ScriptExpandAnon
    \/ ScriptReturn
    \/ ScriptRaise

SpecHook == InitHook /\ [][NextHook]_vars

-----------------------------------------------------------------------------
(* launch: the initial text of the instance and what the instance is given. *)

\* What one level of indent is in the host: IndentUtil turns n tabs into n
\* of these.
IndentUnits == { <<"\t">>, <<" ", " ">> }

\* Texts before the trigger on the launch line.
LaunchLines == { <<>>, <<"\t", "a">> }

\* Bodies: no tab, a leading tab, a second line of a tab alone, and two
\* indented lines with a blank at the end.
Bodies ==
    { <<"x">>, <<"\t", "x">>, <<"x", "\n", "\t">>,
      <<"\t", "x", "\n", "\t", "\t", "x", " ">> }

\* s.splitlines(), for texts whose only line break is "\n".
RECURSIVE SplitLinesFrom(_, _)
SplitLinesFrom(s, line) ==
    IF s = <<>> THEN (IF line = <<>> THEN <<>> ELSE <<line>>)
    ELSE IF Head(s) = "\n" THEN <<line>> \o SplitLinesFrom(Tail(s), <<>>)
    ELSE SplitLinesFrom(Tail(s), Append(line, Head(s)))

splitlines(s) == SplitLinesFrom(s, <<>>)

\* "\n".join(lines)
RECURSIVE join(_)
join(lines) ==
    IF lines = <<>> THEN <<>>
    ELSE IF Len(lines) = 1 THEN lines[1]
    ELSE lines[1] \o <<"\n">> \o join(Tail(lines))

\* _INDENT.match(text_before).group(0): the blanks text_before begins with.
LaunchIndent(text_before) ==
    SubSeq(text_before, 1, Len(text_before) - Len(LStripSet(text_before, Blank)))

\* len(_TABS.match(line).group(0)): the tabs line begins with.
LeadingTabs(line) == Len(line) - Len(LStripSet(line, {"\t"}))

\* IndentUtil.ntabs_to_proper_indent(ntabs)
RECURSIVE ntabs_to_proper_indent(_, _)
ntabs_to_proper_indent(ntabs, unit) ==
    IF ntabs = 0 THEN <<>> ELSE unit \o ntabs_to_proper_indent(ntabs - 1, unit)

\* Mutant of launch_line: the tabs are converted whatever the options.
launch_line_converts_always(line, line_num, o, indent, unit) ==
    LET tabs     == LeadingTabs(line)
        line_ind == ntabs_to_proper_indent(tabs, unit)
        result   == (IF line_num # 0 THEN indent ELSE <<>>) \o line_ind
                    \o PySliceFrom(line, tabs)
    IN  IF "m" \in o THEN RStrip(result) ELSE result

\* The body of launch's loop: the line of the initial text made of a line of
\* the body.
launch_line(line, line_num, o, indent, unit) ==
    LET tabs     == IF "t" \in o THEN 0 ELSE LeadingTabs(line)
        line_ind == ntabs_to_proper_indent(tabs, unit)
        result   == (IF line_num # 0 THEN indent ELSE <<>>) \o line_ind
                    \o PySliceFrom(line, tabs)
    IN  IF "m" \in o THEN RStrip(result) ELSE result

\* launch, down to initial_text.
launch_text(val, o, indent, unit) ==
    LET lines == splitlines(val \o <<"\n">>)
    IN  join([k \in 1..Len(lines) |-> launch_line(lines[k], k - 1, o, indent, unit)])

\* launch(text_before, visual_content, parent, start, end): the preamble is
\* compiled if it is not yet, outside any handler, and the instance is given
\* the initial text, _last_re, _context and the compiled preamble.
Launch ==
    /\ Idle
    /\ \E text_before \in LaunchLines, unit \in IndentUnits :
           LET indent == LaunchIndent(text_before)
               c == IF compiled_globals = "None" THEN precompile_globals(globals)
                    ELSE [raised |-> FALSE, compiled |-> compiled_globals]
           IN  IF c.raised
               THEN /\ raised' = "SyntaxError"
                    /\ UNCHANGED <<compiled_globals, compiles, snippet_instance>>
               ELSE /\ raised' = "none"
                    /\ compiled_globals' = c.compiled
                    /\ compiles' = IF compiled_globals = "None" /\ compiles < 2
                                   THEN compiles + 1 ELSE compiles
                    /\ snippet_instance' =
                           [launched |-> TRUE,
                            initial_text |-> launch_text(snippet_value, opts, indent, unit),
                            indent |-> indent,
                            last_re |-> last_re,
                            context |-> context,
                            compiled_globals |-> c.compiled]
    /\ op' = "launch"
    /\ ret' = FALSE
    /\ debug' = NoDebug
    /\ UNCHANGED <<defvars, before, hostvars, execvars, context_code, globals,
                   snippet_value, bad_sources, glob>>

\* The user types the next character of the trigger.
TypeTrigger ==
    /\ Idle
    /\ Len(before) < Len(trigger)
    /\ Len(before) < MaxLen
    /\ before' = Append(before, trigger[Len(before) + 1])
    /\ op' = "type"
    /\ ret' = FALSE
    /\ raised' = "none"
    /\ debug' = NoDebug
    /\ UNCHANGED <<defvars, hostvars, execvars, codevars>>

\* The user deletes the text before the cursor.
Erase ==
    /\ Idle
    /\ before # <<>>
    /\ before' = <<>>
    /\ op' = "type"
    /\ ret' = FALSE
    /\ raised' = "none"
    /\ debug' = NoDebug
    /\ UNCHANGED <<defvars, hostvars, execvars, codevars>>

\* Flags launch reads, with r.
LaunchFlags == {"r", "t", "m"}

\* The host and hook variables of a session with a line in the buffer and
\* one instance on the stack.
HostWithLine ==
    /\ wcursor = <<1, 0>>
    /\ mark = ZeroPos
    /\ stack = <<"s1">>
    /\ pc = "idle"
    /\ hook = "none"
    /\ target = 0
    /\ handle = [cursor |-> <<0, 0>>, set |-> FALSE]
    /\ snip_context = NoContext
    /\ snip_line = 0
    /\ snip_column = 0
    /\ cursor_line_before = <<>>
    /\ old_mark = ZeroPos
    /\ new_mark_pos = ZeroPos
    /\ steps = 0
    /\ script = <<>>

InitLaunch ==
    /\ \E o \in SUBSET LaunchFlags : Constructed(<<"a">>, o, {})
    /\ before = <<>>
    /\ op = "__init__"
    /\ ret = FALSE
    /\ context_code \in {"None", "cond"}
    /\ bad_sources = {}
    /\ raised = ctor_raised(trigger, opts, context_code, actions, bad_sources)
    /\ debug = NoDebug
    /\ globals = "ok"
    /\ snippet_value \in Bodies
    /\ glob = {}
    /\ snippet_instance = NoInstance
    /\ buffer \in { << <<>> >>, << <<"a">> >> }
    /\ HostWithLine

NextLaunch ==
    \/ TypeTrigger
    \/ Erase
    \/ Matches
    \/ CouldMatch
    \/ Launch

SpecLaunch == InitLaunch /\ [][NextLaunch]_vars

-----------------------------------------------------------------------------
(* Sessions in which scripts run: the context predicate in matches, the    *)
(* action scripts in the hooks, and launch.                                *)

InitScript ==
    /\ \E acts \in {{}, {"pre_expand", "post_expand"}} : Constructed(<<"a">>, {}, acts)
    /\ before = <<>>
    /\ op = "__init__"
    /\ ret = FALSE
    /\ context_code \in {"None", "cond"}
    /\ bad_sources \in {{}, {"context"}, {"post_expand"}}
    /\ raised = ctor_raised(trigger, opts, context_code, actions, bad_sources)
    /\ debug = NoDebug
    /\ globals \in GlobalsKinds
    /\ snippet_value = <<"x">>
    /\ glob = {}
    /\ snippet_instance = NoInstance
    /\ buffer = << <<"a">> >>
    /\ HostWithLine

NextScript ==
    \/ TypeTrigger
    \/ Matches
    \/ Launch
    \/ DoPreExpand
    \/ DoPostExpand
    \/ ScriptSetContext
    \/ ScriptCursorPreserve
    \/ ScriptReturn
    \/ ScriptRaise

SpecScript == InitScript /\ [][NextScript]_vars

-----------------------------------------------------------------------------
(* The claims about matching, checked under SpecMatch.                     *)

\* The places of the whitespace characters of s: each delimits two tokens (a
\* token is empty between two of them, and after the last one that ends s).
Delimiters(s) == {i \in 1..Len(s) : s[i] \in Whitespace}

\* The number of whitespace-delimited tokens of s.
TokenCount(s) == Cardinality(Delimiters(s)) + 1

\* The trailing n tokens of s as they stand in s, trimmed; all of s, trimmed,
\* when s has no more than n tokens.
TrailingTokens(s, n) ==
    IF TokenCount(s) <= n THEN Strip(s)
    ELSE LET e == CHOOSE x \in Delimiters(s) :
                      Cardinality({y \in Delimiters(s) : y >= x}) = n
         IN  Strip(SubSeq(s, e + 1, Len(s)))

\* The window of before the trigger is compared with.
TokenWindow == TrailingTokens(before, TokenCount(trigger))

\* C1: with no flag among r, w, i, b, matches(before) is true exactly when
\* the trailing token run of before equals the trigger, and then matched is
\* the trigger.
C1_ExactMatch ==
    (op = "matches" /\ opts = {}) =>
        /\ ret <=> (TokenWindow = trigger)
        /\ ret => matched = trigger

\* C1: the trigger matched after other text on the line.
C1_Witness ==
    /\ op = "matches" /\ opts = {} /\ ret
    /\ Len(before) > Len(trigger)
    /\ \E i \in 1..Len(before) : before[i] \notin Whitespace /\ i <= Len(before) - Len(trigger)

\* C2: with flag i alone, matches(before) is true exactly when the trailing
\* token run of before ends with the trigger, whatever precedes it there, and
\* then matched is the trigger.
C2_InwordMatch ==
    (op = "matches" /\ opts = {"i"}) =>
        /\ ret <=> EndsWith(TokenWindow, trigger)
        /\ ret => matched = trigger

\* C2: the trigger matched as the end of a longer word.
C2_Witness ==
    /\ op = "matches" /\ opts = {"i"} /\ ret /\ matched = trigger
    /\ Len(TokenWindow) > Len(trigger)
    /\ TokenWindow[Len(TokenWindow) - Len(trigger)] \in Keyword
    /\ trigger[1] \in Keyword

\* The window ends with the trigger at a word start: nothing of the window
\* precedes the trigger there, or the character before it and the trigger's
\* first character make a word boundary for the host.
WordWindowMatch ==
    LET k == Len(TokenWindow) - Len(trigger)
    IN  /\ EndsWith(TokenWindow, trigger)
        /\ \/ k = 0
           \/ trigger[1] \in Keyword /\ TokenWindow[k] \notin Keyword

\* C3 as claimed: with flag w and not r, matches(before) is true exactly when
\* the last len(trigger) characters of the window are the trigger and either
\* nothing of the window precedes them or the character before them and the
\* first character of the trigger make a word boundary for the host.
C3_WordMatchAlone ==
    (op = "matches" /\ "w" \in opts /\ "r" \notin opts) => (ret <=> WordWindowMatch)

\* C3 amended: with flag w and not r, matches(before) is true exactly when the
\* window ends with the trigger at a word start and, if flag b is set too,
\* only blanks precede the trigger on the line.
C3_WordMatch ==
    (op = "matches" /\ "w" \in opts /\ "r" \notin opts) =>
        (ret <=> /\ WordWindowMatch
                 /\ "b" \in opts =>
                        \A i \in 1..(Len(RStrip(before)) - Len(trigger)) :
                            before[i] \in Blank)

\* C3: a window that ends with the trigger after a keyword character was
\* refused, the trigger starting with a keyword character.
C3_Witness ==
    /\ op = "matches" /\ "w" \in opts /\ "r" \notin opts /\ "b" \notin opts
    /\ ~ret
    /\ EndsWith(TokenWindow, trigger)
    /\ Len(TokenWindow) > Len(trigger)
    /\ TokenWindow[Len(TokenWindow) - Len(trigger)] \in Keyword
    /\ trigger[1] \in Keyword

\* What the call just made returns and records when flag b is left out of
\* the options: the match on content alone.
ContentMatch ==
    IF op = "matches"
    THEN matches(trigger, opts \ {"b"}, NoMatch, NoContext, before)
    ELSE could_match(trigger, opts \ {"b"}, NoMatch, before)

\* The offset in before at which the text that matched on content starts.
ContentStart ==
    IF "r" \in opts THEN Len(before) - Len(MatchText(ContentMatch.last_re))
    ELSE Len(before) - Len(ContentMatch.matched)

\* C4: with flag b, in every mode, matches and could_match return false and
\* leave matched empty whenever a character that is no whitespace precedes,
\* in before, the text that matched on content.
C4_LineStartOnly ==
    (/\ op \in {"matches", "could_match"}
     /\ "b" \in opts
     /\ ContentMatch.ret
     /\ ContentStart < Len(before)
     /\ \E i \in 1..ContentStart : before[i] \notin Whitespace)
    => (~ret /\ matched = <<>>)

\* C5: could_match("") is true for every definition, whatever its options.
C5_EmptyBefore ==
    (op = "could_match" /\ before = <<>>) => ret

\* C6: with flag r (and not b), matches(before) takes the rightmost of the
\* matches found by scanning before that end at len(before); it is false when
\* there is none, and otherwise true with matched the text that match spans.
C6_RegexMatch ==
    (op = "matches" /\ "r" \in opts /\ "b" \notin opts) =>
        LET ms    == finditer(trigger, before)
            cands == {k \in 1..Len(ms) : ms[k].end = Len(before)}
        IN  IF cands = {} THEN ~ret
            ELSE ret /\ matched = MatchText(ms[CHOOSE k \in cands : \A j \in cands : j <= k])

-----------------------------------------------------------------------------
(* The claims about the action hooks, checked under SpecHook.              *)

\* A hook that has its action has just returned, or raised after its script
\* ran to the end.
HookDone ==
    pc = "idle" /\ op \in ActionKeys /\ op \in actions /\ raised # "ScriptError"

\* The script executed a statement among names.
Executed(names) == \E k \in 1..Len(script) : script[k] \in names

C8_UnsetCursor ==
    (HookDone /\ ~is_set(handle)) =>
        LET gone    == new_mark_pos = ZeroPos
            text    == SubSeq(buffer[new_mark_pos[1]], 1,
                              Min(new_mark_pos[2] - 1, Len(buffer[new_mark_pos[1]])))
            invalid == gone \/ text # cursor_line_before
        IN  /\ raised = "PebkacError" <=> invalid
            /\ ~invalid => /\ raised = "none"
                           /\ wcursor = <<new_mark_pos[1], new_mark_pos[2] - 1>>

\* C8: the usage error was raised for a changed line, the mark still there.
C8_Witness ==
    /\ HookDone /\ ~is_set(handle)
    /\ raised = "PebkacError"
    /\ new_mark_pos # ZeroPos
    /\ script # <<>>

C10_AbsentActionIsNoop ==
    [][(pc = "idle" /\ op' \in ActionKeys /\ op' \notin actions) =>
           /\ ret' = FALSE
           /\ raised' = "none"
           /\ pc' = "idle"
           /\ UNCHANGED <<wcursor, mark, buffer, context, stack, steps, script>>]_vars

\* C10: a hook without its action was called after a script had given the
\* definition and an instance a context.
C10_Witness ==
    /\ pc = "idle" /\ op \in ActionKeys /\ op \notin actions
    /\ ~ret
    /\ context # NoContext
    /\ stack # <<"s1", "s2">>

-----------------------------------------------------------------------------
(* The claims about script errors, regex errors and what the calls leave.  *)

\* The diagnostics the claims ask for: location, trigger, description, the
\* context source and the pre- and post-expand sources or "<none>", and the
\* script text rebuilt with the preamble before the role script.
Diagnostics(role_code) ==
    [snippet_info |->
         << "location", trigger, "description",
            IF context_code = "None" THEN "<none>" ELSE context_code,
            IF "pre_expand" \in actions THEN "pre_expand" ELSE "<none>",
            IF "post_expand" \in actions THEN "post_expand" ELSE "<none>" >>,
     snippet_code |-> << "import re, os, vim, string, random", globals, role_code >>]

\* C11: an exception raised while a preamble, a context predicate or an
\* action script is compiled or executed comes out of matches or of a hook
\* with the diagnostics and the rebuilt script text on it; a script that
\* raises, or whose preamble fails, makes the call raise; and the hook then
\* neither returns true nor leaves the mark where it had put it.
C11_ScriptErrorsEnriched ==
    /\ raised \in {"ScriptError", "SyntaxError"} =>
           /\ op \in {"matches"} \cup ActionKeys
           /\ debug = Diagnostics(IF op = "matches"
                                  THEN <<"snip.context = ", context_code>> ELSE op)
    /\ (pc = "idle" /\ op \in ActionKeys /\ op \in actions
            /\ (globals # "ok" \/ (script # <<>> /\ script[Len(script)] = "raise")))
           => (raised = "ScriptError" /\ ~ret /\ mark = old_mark)
    /\ (op = "matches" /\ script = <<"raise">>) => (raised = "ScriptError" /\ ~ret)

\* C13: when re raises in the scan for a mode-r trigger, in the constructor's
\* match, in matches or in could_match, the caller gets that error with the
\* diagnostics on it.
C13_RegexErrorEnriched ==
    (op \in {"__init__", "matches", "could_match"} /\ "r" \in opts /\ ~ReValid(trigger))
        => /\ raised = "re.error"
           /\ debug.snippet_info = Diagnostics(<<>>).snippet_info

\* C14: an instance launched after a call that left no match is not handed
\* the match object of an earlier call.
C14_NoStaleMatch ==
    (op = "launch" /\ raised = "none" /\ snippet_instance.launched /\ matched = <<>>)
        => snippet_instance.last_re = NoMatch

\* C18 as claimed: could_match returns false for every non-empty before that
\* ends in whitespace.
C18_NoMatchAfterBlank ==
    (op = "could_match" /\ before # <<>> /\ before[Len(before)] \in Whitespace)
        => ~ret

\* C18 amended: could_match returns false for a before that ends in
\* whitespace other than a space or a tab; a before that ends in a space or
\* a tab is taken for the empty before, for which the call returns true with
\* matched empty, unless the trigger is a pattern that does not match the
\* empty text.
C18_BlankListsAll ==
    (op = "could_match" /\ raised = "none" /\ before # <<>>
         /\ before[Len(before)] \in Whitespace)
        => IF before[Len(before)] \in Blank
           THEN /\ ret <=> ("r" \notin opts \/ finditer(trigger, <<>>) # <<>>)
                /\ ret => matched = <<>>
           ELSE ~ret /\ matched = <<>>

\* C18: could_match returned true for text that ends in a blank.
C18_Witness ==
    /\ op = "could_match" /\ ret
    /\ Len(before) > 1
    /\ before[Len(before)] \in Blank
    /\ before[1] \notin Whitespace

\* C19: after a matches or could_match call that returned false, matched is
\* empty.
C19_MatchedEmptyOnFalse ==
    (op \in {"matches", "could_match"} /\ raised = "none" /\ ~ret) => matched = <<>>

-----------------------------------------------------------------------------
(* The claims about launch.                                                *)

\* text.split("\n"): the lines of a text, empty ones kept.
RECURSIVE SplitNewline(_, _)
SplitNewline(s, line) ==
    IF s = <<>> THEN <<line>>
    ELSE IF Head(s) = "\n" THEN <<line>> \o SplitNewline(Tail(s), <<>>)
    ELSE SplitNewline(Tail(s), Append(line, Head(s)))

\* The lines of the body and of the initial text of the launched instance.
BodyLines == splitlines(snippet_value \o <<"\n">>)

TextLines == SplitNewline(snippet_instance.initial_text, <<>>)

\* The tabs a body line begins with, and the line without them.
TabsOf(line) == SubSeq(line, 1, LeadingTabs(line))

RestOf(line) == SubSeq(line, LeadingTabs(line) + 1, Len(line))

\* The launch-line indent in front of every line but the first.
IndentOf(k) == IF k > 1 THEN snippet_instance.indent ELSE <<>>

\* Flag m takes the whitespace off the end of a line.
Trimmed(line) == IF "m" \in opts THEN RStrip(line) ELSE line

\* C12 as claimed: with flag t every line of the initial text has, after the
\* launch-line indent, the leading tabs of its body line; without t it has
\* the host's indent unit once for each of these tabs instead.
C12_TabsSurvive ==
    snippet_instance.launched =>
        /\ Len(TextLines) = Len(BodyLines)
        /\ \E unit \in IndentUnits : \A k \in 1..Len(BodyLines) :
               StartsWith(TextLines[k],
                          IndentOf(k) \o
                          (IF "t" \in opts THEN TabsOf(BodyLines[k])
                           ELSE ntabs_to_proper_indent(LeadingTabs(BodyLines[k]), unit)))

\* C12 amended: with flag t a line of the initial text is the launch-line
\* indent (not on the first line) and the body line as it is, tabs included;
\* without t the leading tabs are replaced by as many indent units; and with
\* flag m the whitespace at the end of the line so made is removed, which
\* empties a line that holds tabs alone.
C12_TabsSurviveUntrimmed ==
    snippet_instance.launched =>
        /\ Len(TextLines) = Len(BodyLines)
        /\ \E unit \in IndentUnits : \A k \in 1..Len(BodyLines) :
               TextLines[k] =
                   Trimmed(IndentOf(k) \o
                           (IF "t" \in opts THEN TabsOf(BodyLines[k])
                            ELSE ntabs_to_proper_indent(LeadingTabs(BodyLines[k]), unit))
                           \o RestOf(BodyLines[k]))

\* C12: an instance launched with flag t on an indented line, from a body
\* whose second line begins with tabs, and the tabs are in the text.
C12_Witness ==
    /\ snippet_instance.launched
    /\ op = "launch"
    /\ "t" \in opts
    /\ snippet_instance.indent # <<>>
    /\ Len(BodyLines) = 2
    /\ LeadingTabs(BodyLines[2]) = 2
    /\ StartsWith(TextLines[2], snippet_instance.indent \o <<"\t", "\t">>)

\* C15: matches on a definition with a context predicate returns true only
\* if the trigger matched and the predicate, run in that call, left a truthy
\* value, which is then the definition's context; on a buffer that is one
\* empty line the predicate is not run, the context is empty and the call
\* returns false.
C15_ContextDecides ==
    (op = "matches" /\ context_code # "None" /\ raised = "none") =>
        /\ ret => /\ matches(trigger, opts, last_re, context, before).ret
                  /\ script = <<"context">>
                  /\ Truthy(context)
                  /\ context = snip_context
        /\ (Len(buffer) = 1 /\ buffer[1] = <<>>) =>
               (script = <<>> /\ ~ret /\ context = NoContext)

\* C15: the trigger matched and the predicate left a truthy value.
C15_Witness ==
    /\ op = "matches"
    /\ context_code # "None"
    /\ ret
    /\ script = <<"context">>
    /\ context = "ctx"

-----------------------------------------------------------------------------
(* The claims about the hooks' context, the preamble and the injected      *)
(* position.                                                               *)

\* C16: do_post_expand gives its script the context of the instance on top
\* of the stack at the call and do_post_jump that of the instance passed to
\* it; when the hook returns, the context the script left is stored in that
\* same instance, and neither the context of another instance of the stack
\* nor the definition's own context has changed.
C16_ContextOfInstance ==
    [][ /\ (pc = "idle" /\ pc' = "script" /\ hook' = "post_expand")
            => (target' = Len(stack) /\ snip_context' = stack[Len(stack)])
        /\ (pc = "idle" /\ pc' = "script" /\ hook' = "post_jump")
            => snip_context' = stack[target']
        /\ (pc = "script" /\ pc' = "idle" /\ raised' = "none"
                /\ hook \in {"post_expand", "post_jump"})
            => /\ stack' = [stack EXCEPT ![target] = snip_context]
               /\ context' = context ]_vars

\* C17: over the calls on one definition the preamble is compiled at most
\* once, and not before the first script execution or launch; a role script
\* runs only after the preamble ran in its namespace, so it sees the names
\* the preamble defined and does not run when the preamble fails.
C17_PreambleOnceAndFirst ==
    /\ [](/\ compiles <= 1
          /\ (compiled_globals = "None") <=> (compiles = 0)
          /\ op = "__init__" => compiles = 0
          /\ pc = "script" => "preamble" \in glob
          /\ (op \in {"matches"} \cup ActionKeys /\ script # <<>>) => "preamble" \in glob
          /\ globals # "ok" => (pc = "idle" /\ script = <<>>))
    /\ [][(compiles' # compiles \/ compiled_globals' # compiled_globals)
              => (/\ compiles = 0
                  /\ compiles' = 1
                  /\ op' \in {"matches", "launch"} \cup ActionKeys)]_vars

\* C17: the preamble was compiled once, an instance was launched and a later
\* context predicate ran with the preamble's names.
C17_Witness ==
    /\ compiles = 1
    /\ snippet_instance.launched
    /\ op = "matches"
    /\ script = <<"context">>
    /\ "preamble" \in glob

\* C20: when a script starts, the injected line and column and the position
\* the fresh cursor handle holds are the same zero-based position.
C20_SamePosition ==
    (pc = "script" /\ script = <<>>)
        => (snip_line = handle.cursor[1] /\ snip_column = handle.cursor[2])

====
